---- MODULE Spec2Model ----
(***************************************************************************)
(* The 4x4 sliding-tile image puzzle component (Vue single-file component, *)
(* <script setup> block): board, move handling, shuffle with solvability   *)
(* check, completion watcher and the elapsed-time timer.                   *)
(*                                                                         *)
(* Arrays are modelled as functions over 0..(length-1), as in the source.  *)
(* One action is one browser task run to completion: the event handler     *)
(* together with the watcher callback it schedules (Vue flushes watchers   *)
(* in a microtask, before any other click or interval callback can run).   *)
(***************************************************************************)
EXTENDS Integers, FiniteSets, Sequences, TLC

GRID_SIZE == 4
TOTAL_TILES == GRID_SIZE * GRID_SIZE
EMPTY_TILE == TOTAL_TILES - 1

\* Bounds of the model.
\* Number of leading iterations of the shuffle loop (i = 15, 14, ...) whose
\* random index j is drawn; the remaining draws return j = i.
ShuffleDepth == 1
\* A drawn index j lies in (i - MaxDrawBack)..i, within 0..i.
MaxDrawBack == 4
\* Applied moves explored per session.
MaxMoves == 3
\* Cap on the elapsed-time counter.
MaxTime == 2

VARIABLES
    tiles,           \* tiles.value
    elapsedTime,     \* elapsedTime.value
    isTimerRunning,  \* isTimerRunning.value
    hasStarted,      \* hasStarted.value
    timerInterval,   \* the module-level handle: NULL or an interval id
    intervals,       \* the intervals the browser holds live
    phase,           \* component lifecycle: "setup", "mounted", "unmounted";
                     \* "shuffling" inside the do-while of initGame, where
                     \* the loop is modelled one iteration at a time
    moves,           \* applied moves of the session (bounds the exploration)
    ticks,           \* history: interval callbacks run while isTimerRunning
                     \* since the last initGame
    lastKind,        \* history: kind of the last event processed
    lastIndex,       \* history: index passed to the last tile click, else -1
    wasRunning,      \* history: isTimerRunning.value before the last event
    prevTiles        \* history: tiles.value before the last tile click when
                     \* the last event was one, else the current tiles.value

vars == <<tiles, elapsedTime, isTimerRunning, hasStarted, timerInterval,
          intervals, phase, moves, ticks, lastKind, lastIndex, wasRunning,
          prevTiles>>

NULL == 0

----------------------------------------------------------------------------
(* Array helpers *)

Length(arr) == Cardinality(DOMAIN arr)

Abs(x) == IF x < 0 THEN -x ELSE x

\* JavaScript %: the remainder takes the sign of the dividend.
JsRem(a, b) == IF a >= 0 THEN a % b ELSE -((-a) % b)

\* Array.prototype.indexOf: the first index holding v, or -1.
RECURSIVE IndexFrom(_, _, _)
IndexFrom(arr, v, i) ==
    IF i \notin DOMAIN arr THEN -1
    ELSE IF arr[i] = v THEN i
    ELSE IndexFrom(arr, v, i + 1)

IndexOf(arr, v) == IndexFrom(arr, v, 0)

\* Values of a cell that holds no label: the value undefined, and a hole of
\* a sparse array (an index below length that was never assigned).
UNDEFINED == -1
HOLE == -2

\* arr[i]: undefined outside 0..(length-1) and at a hole.
JsGet(arr, i) ==
    IF i \in DOMAIN arr /\ arr[i] # HOLE THEN arr[i] ELSE UNDEFINED

\* arr[i] = v: an index at or past length extends the array, leaving holes;
\* a negative index is stored as a property and leaves the elements alone.
JsSet(arr, i, v) ==
    IF i \in DOMAIN arr THEN [arr EXCEPT ![i] = v]
    ELSE IF i >= Length(arr)
         THEN [k \in 0..i |-> IF k \in DOMAIN arr THEN arr[k]
                              ELSE IF k = i THEN v ELSE HOLE]
         ELSE arr

\* [...arr]: the elements copied, holes read as undefined.
Spread(arr) == [k \in DOMAIN arr |-> JsGet(arr, k)]

\* Variant: the destructuring swap replaced by a single assignment.
SwapCopy(arr, i, j) == JsSet(arr, i, JsGet(arr, j))

\* [a[i], a[j]] = [a[j], a[i]]: both reads precede both writes.
Swap(arr, i, j) == JsSet(JsSet(arr, i, JsGet(arr, j)), j, JsGet(arr, i))

----------------------------------------------------------------------------
(* Board *)

\* Variant: completion decided by the empty slot being in the last cell.
isCompleteEmptyLast(t) == JsGet(t, EMPTY_TILE) = EMPTY_TILE

\* Array.prototype.every skips holes.
isComplete(t) == \A index \in DOMAIN t : t[index] = HOLE \/ t[index] = index

\* Variant: the empty slot taken to be the last cell.
findEmptyIndexLast(t) == EMPTY_TILE

findEmptyIndex(t) == IndexOf(t, EMPTY_TILE)

\* Variant: adjacency decided on the flat indices, without rows and columns.
isAdjacentFlat(t, index) ==
    LET emptyIndex == findEmptyIndex(t)
    IN Abs(emptyIndex - index) = 1 \/ Abs(emptyIndex - index) = GRID_SIZE

\* Variant: rows and columns both at most one apart (the eight cells around
\* the empty slot and the slot itself).
isAdjacentAround(t, index) ==
    LET emptyIndex == findEmptyIndex(t)
        emptyRow == emptyIndex \div GRID_SIZE
        emptyCol == JsRem(emptyIndex, GRID_SIZE)
        tileRow == index \div GRID_SIZE
        tileCol == JsRem(index, GRID_SIZE)
        rowDiff == Abs(emptyRow - tileRow)
        colDiff == Abs(emptyCol - tileCol)
    IN rowDiff <= 1 /\ colDiff <= 1

\* Variant: the row and column distances summed and compared with one,
\* which also admits the empty slot itself.
isAdjacentOrSelf(t, index) ==
    LET emptyIndex == findEmptyIndex(t)
        emptyRow == emptyIndex \div GRID_SIZE
        emptyCol == JsRem(emptyIndex, GRID_SIZE)
        tileRow == index \div GRID_SIZE
        tileCol == JsRem(index, GRID_SIZE)
        rowDiff == Abs(emptyRow - tileRow)
        colDiff == Abs(emptyCol - tileCol)
    IN rowDiff + colDiff <= 1

isAdjacent(t, index) ==
    LET emptyIndex == findEmptyIndex(t)
        emptyRow == emptyIndex \div GRID_SIZE
        emptyCol == JsRem(emptyIndex, GRID_SIZE)
        tileRow == index \div GRID_SIZE
        tileCol == JsRem(index, GRID_SIZE)
        rowDiff == Abs(emptyRow - tileRow)
        colDiff == Abs(emptyCol - tileCol)
    IN (rowDiff = 1 /\ colDiff = 0) \/ (rowDiff = 0 /\ colDiff = 1)

\* arr.filter(x => x !== EMPTY_TILE), as a 1-indexed sequence
FlatArr(arr) ==
    SelectSeq([k \in 1..Length(arr) |-> arr[k - 1]],
              LAMBDA x : x # EMPTY_TILE)

Inversions(flatArr) ==
    Cardinality({p \in (1..Len(flatArr)) \X (1..Len(flatArr)) :
                    p[1] < p[2] /\ flatArr[p[1]] > flatArr[p[2]]})

\* Variant: the odd-width rule, which ignores the row of the empty slot.
isSolvableOddWidth(arr) == Inversions(FlatArr(arr)) % 2 = 0

isSolvable(arr) ==
    LET inversions == Inversions(FlatArr(arr))
        emptyRow == IndexOf(arr, EMPTY_TILE) \div GRID_SIZE
        emptyRowFromBottom == GRID_SIZE - emptyRow
    IN IF emptyRowFromBottom % 2 = 1
       THEN inversions % 2 = 0
       ELSE inversions % 2 = 1

\* The outcomes of Math.floor(Math.random() * (i + 1)) over one shuffle:
\* a function from the loop index i to the drawn j in 0..i.
FreeIndices == (TOTAL_TILES - ShuffleDepth)..(TOTAL_TILES - 1)

RandomDraws ==
    {c \in [FreeIndices -> 0..(TOTAL_TILES - 1)] :
        \A i \in FreeIndices : c[i] <= i /\ c[i] >= i - MaxDrawBack}

Draw(c, i) == IF i \in DOMAIN c THEN c[i] ELSE i

RECURSIVE shuffleLoop(_, _, _)
shuffleLoop(shuffled, i, c) ==
    IF i > 0
    THEN shuffleLoop(Swap(shuffled, i, Draw(c, i)), i - 1, c)
    ELSE shuffled

shuffleArray(arr, c) == shuffleLoop(arr, Length(arr) - 1, c)

original == [i \in 0..(TOTAL_TILES - 1) |-> i]

\* Variant: the loop condition without the solvability test.
ResampleIfComplete(shuffled) == isComplete(shuffled)

\* Variant: the completeness test applied to original instead of shuffled.
ResampleOnOriginal(shuffled) == ~isSolvable(shuffled) \/ isComplete(original)

\* The do-while of initGame repeats while this holds of the candidate.
Resample(shuffled) == ~isSolvable(shuffled) \/ isComplete(shuffled)

\* The boards on which the do-while of initGame can exit.
InitGameBoards ==
    {b \in {shuffleArray(original, c) : c \in RandomDraws} : ~Resample(b)}

----------------------------------------------------------------------------
(* Timer: operators on the record of the timer's state *)

Timer ==
    [elapsedTime |-> elapsedTime, isTimerRunning |-> isTimerRunning,
     hasStarted |-> hasStarted, timerInterval |-> timerInterval,
     intervals |-> intervals]

\* setInterval returns an id no live interval has.
NewInterval(live) ==
    CHOOSE h \in 1..(Cardinality(live) + 1) :
        h \notin live /\ \A k \in 1..(Cardinality(live) + 1) : k \notin live => h <= k

\* Variant: startTimer without hasStarted.value = true.
startTimerUnmarked(t) ==
    IF t.isTimerRunning
    THEN t
    ELSE [t EXCEPT !.isTimerRunning = TRUE,
                   !.timerInterval = NewInterval(t.intervals),
                   !.intervals = t.intervals \cup {NewInterval(t.intervals)}]

\* Variant: startTimer without isTimerRunning.value = true.
startTimerNotRunning(t) ==
    IF t.isTimerRunning
    THEN t
    ELSE [t EXCEPT !.hasStarted = TRUE,
                   !.timerInterval = NewInterval(t.intervals),
                   !.intervals = t.intervals \cup {NewInterval(t.intervals)}]

startTimer(t) ==
    IF t.isTimerRunning
    THEN t
    ELSE [t EXCEPT !.isTimerRunning = TRUE,
                   !.hasStarted = TRUE,
                   !.timerInterval = NewInterval(t.intervals),
                   !.intervals = t.intervals \cup {NewInterval(t.intervals)}]

\* Variant: stopTimer without clearInterval.
stopTimerNoClear(t) == [t EXCEPT !.isTimerRunning = FALSE]

\* Variant: stopTimer forgets the handle without clearing the interval.
stopTimerDropHandle(t) ==
    [t EXCEPT !.timerInterval = NULL, !.isTimerRunning = FALSE]

\* Variant: stopTimer clears the interval but keeps the handle.
stopTimerKeepHandle(t) ==
    [t EXCEPT !.intervals = t.intervals \ {t.timerInterval},
              !.isTimerRunning = FALSE]

stopTimer(t) ==
    LET cleared ==
            IF t.timerInterval # NULL
            THEN [t EXCEPT !.intervals = t.intervals \ {t.timerInterval},
                           !.timerInterval = NULL]
            ELSE t
    IN [cleared EXCEPT !.isTimerRunning = FALSE]

\* Variant: resetTimer without elapsedTime.value = 0.
resetTimerKeepTime(t) == [stopTimer(t) EXCEPT !.hasStarted = FALSE]

\* Variant: the timer restarted as soon as it has been reset.
resetTimerAndStart(t) ==
    startTimer([stopTimer(t) EXCEPT !.elapsedTime = 0, !.hasStarted = FALSE])

resetTimer(t) ==
    [stopTimer(t) EXCEPT !.elapsedTime = 0, !.hasStarted = FALSE]

\* Variant: the watcher resets the timer on completion.
watchIsCompleteReset(old, completed, t) ==
    IF completed # old /\ completed /\ t.isTimerRunning
    THEN resetTimer(t)
    ELSE t

\* Variant: no watcher.
watchIsCompleteAbsent(old, completed, t) == t

\* watch(isComplete, ...): the callback runs when the computed value changed.
watchIsComplete(old, completed, t) ==
    IF completed # old /\ completed /\ t.isTimerRunning
    THEN stopTimer(t)
    ELSE t

SetTimer(t) ==
    /\ elapsedTime' = t.elapsedTime
    /\ isTimerRunning' = t.isTimerRunning
    /\ hasStarted' = t.hasStarted
    /\ timerInterval' = t.timerInterval
    /\ intervals' = t.intervals

----------------------------------------------------------------------------
(* Events *)

\* Variant: handleTileClick without its isComplete guard.
AppliesWhenAdjacent(t, index) == isAdjacent(t, index)

\* The move is applied: handleTileClick passes both of its guards.
Applies(t, index) == ~isComplete(t) /\ isAdjacent(t, index)

\* tiles.value after handleTileClick(index)
ClickTiles(t, index) ==
    IF Applies(t, index) THEN Swap(Spread(t), index, findEmptyIndex(t)) ELSE t

\* Variant: the timer started before the adjacency test.
ClickTimerEager(t, index, tm) ==
    IF ~isComplete(t) /\ ~tm.hasStarted THEN startTimer(tm) ELSE tm

\* Variant: the timer is not started by a move that completes the board.
ClickTimerUnlessComplete(t, index, tm) ==
    IF Applies(t, index) /\ ~tm.hasStarted /\ ~isComplete(ClickTiles(t, index))
    THEN startTimer(tm)
    ELSE tm

\* the timer after handleTileClick(index), before the watcher runs
ClickTimer(t, index, tm) ==
    IF Applies(t, index) /\ ~tm.hasStarted THEN startTimer(tm) ELSE tm

initGame ==
    LET old == isComplete(tiles)
        reset == resetTimer(Timer)
    IN /\ \E shuffled \in InitGameBoards :
            /\ tiles' = shuffled
            /\ prevTiles' = shuffled
            /\ SetTimer(watchIsComplete(old, isComplete(shuffled), reset))
       /\ moves' = 0
       /\ ticks' = 0
       /\ lastKind' = "newGame"
       /\ lastIndex' = -1
       /\ wasRunning' = isTimerRunning

onMounted ==
    /\ phase = "setup"
    /\ phase' = "mounted"
    /\ initGame

resetGame ==
    /\ phase = "mounted"
    /\ UNCHANGED phase
    /\ initGame

handleTileClick(index) ==
    LET applied == Applies(tiles, index)
        newTiles == ClickTiles(tiles, index)
    IN /\ phase = "mounted"
       /\ applied => moves < MaxMoves
       /\ tiles' = newTiles
       /\ SetTimer(watchIsComplete(isComplete(tiles), isComplete(newTiles),
                                   ClickTimer(tiles, index, Timer)))
       /\ moves' = IF applied THEN moves + 1 ELSE moves
       /\ lastKind' = "move"
       /\ lastIndex' = index
       /\ wasRunning' = isTimerRunning
       /\ prevTiles' = tiles
       /\ UNCHANGED <<phase, ticks>>

TileClick == \E index \in DOMAIN tiles : handleTileClick(index)

\* The callback of a live interval: elapsedTime.value++
Tick ==
    /\ \E h \in intervals : TRUE
    /\ elapsedTime < MaxTime
    /\ elapsedTime' = elapsedTime + 1
    /\ ticks' = IF isTimerRunning THEN ticks + 1 ELSE ticks
    /\ lastKind' = "tick"
    /\ lastIndex' = -1
    /\ wasRunning' = isTimerRunning
    /\ prevTiles' = tiles
    /\ UNCHANGED <<tiles, isTimerRunning, hasStarted, timerInterval,
                   intervals, phase, moves>>

\* Variant: onUnmounted without stopTimer.
onUnmountedNoStop ==
    /\ phase = "mounted"
    /\ phase' = "unmounted"
    /\ lastKind' = "unmount"
    /\ lastIndex' = -1
    /\ wasRunning' = isTimerRunning
    /\ prevTiles' = tiles
    /\ UNCHANGED <<tiles, moves, ticks, elapsedTime, isTimerRunning,
                   hasStarted, timerInterval, intervals>>

onUnmounted ==
    /\ phase = "mounted"
    /\ phase' = "unmounted"
    /\ SetTimer(stopTimer(Timer))
    /\ lastKind' = "unmount"
    /\ lastIndex' = -1
    /\ wasRunning' = isTimerRunning
    /\ prevTiles' = tiles
    /\ UNCHANGED <<tiles, moves, ticks>>

Init ==
    /\ tiles = <<>>
    /\ elapsedTime = 0
    /\ isTimerRunning = FALSE
    /\ hasStarted = FALSE
    /\ timerInterval = NULL
    /\ intervals = {}
    /\ phase = "setup"
    /\ moves = 0
    /\ ticks = 0
    /\ lastKind = "setup"
    /\ lastIndex = -1
    /\ wasRunning = FALSE
    /\ prevTiles = tiles

Next ==
    \/ onMounted
    \/ resetGame
    \/ TileClick
    \/ Tick
    \/ onUnmounted

Spec == Init /\ [][Next]_vars

----------------------------------------------------------------------------
(* The mounted component on a given board: handleTileClick and the timer   *)
(* as functions of the board, for boards that initGame does not install.   *)

\* [1,0,2,...,15], and the ordered board with the empty slot exchanged with
\* the fragment of an inner cell: boards of both solvability classes.
GivenBoards ==
    {[i \in 0..(TOTAL_TILES - 1) |-> IF i = 0 THEN 1 ELSE IF i = 1 THEN 0 ELSE i]}
    \cup {Swap(original, EMPTY_TILE, j) : j \in {5, 6, 9, 10}}

InitBoard ==
    /\ tiles \in GivenBoards
    /\ elapsedTime = 0
    /\ isTimerRunning = FALSE
    /\ hasStarted = FALSE
    /\ timerInterval = NULL
    /\ intervals = {}
    /\ phase = "mounted"
    /\ moves = 0
    /\ ticks = 0
    /\ lastKind = "newGame"
    /\ lastIndex = -1
    /\ wasRunning = FALSE
    /\ prevTiles = tiles

NextBoard ==
    \/ TileClick
    \/ Tick

SpecBoard == InitBoard /\ [][NextBoard]_vars

----------------------------------------------------------------------------
(* handleTileClick called with any integer near the board, not only with   *)
(* the indices the template's v-for passes.                                *)

ClickInputs == (0 - GRID_SIZE)..(TOTAL_TILES + GRID_SIZE - 1)

AnyIndexClick == \E index \in ClickInputs : handleTileClick(index)

NextAnyIndex ==
    \/ onMounted
    \/ AnyIndexClick
    \/ Tick

SpecAnyIndex == Init /\ [][NextAnyIndex]_vars

----------------------------------------------------------------------------
(* initGame with its do-while loop taken one iteration at a time, between   *)
(* sessions of tile clicks. The loop is synchronous: no click runs before   *)
(* it exits. Interval callbacks are left out: they touch elapsedTime only.  *)

\* initGame is called (by onMounted or by the new-game button) and reaches
\* the do-while.
initGameEnter ==
    /\ phase \in {"setup", "mounted"}
    /\ phase' = "shuffling"
    /\ lastKind' = "initGame"
    /\ lastIndex' = -1
    /\ wasRunning' = isTimerRunning
    /\ prevTiles' = tiles
    /\ UNCHANGED <<tiles, elapsedTime, isTimerRunning, hasStarted,
                   timerInterval, intervals, moves, ticks>>

\* One iteration whose candidate makes the loop condition true: the
\* candidate is dropped and the loop repeats.
initGameRetry ==
    /\ phase = "shuffling"
    /\ \E c \in RandomDraws : Resample(shuffleArray(original, c))
    /\ lastKind' = "retry"
    /\ UNCHANGED <<tiles, elapsedTime, isTimerRunning, hasStarted,
                   timerInterval, intervals, phase, moves, ticks, lastIndex,
                   wasRunning, prevTiles>>

\* One iteration whose candidate makes the loop condition false: the loop
\* exits, the candidate is installed and the timer reset.
initGameExit ==
    /\ phase = "shuffling"
    /\ phase' = "mounted"
    /\ initGame

NextLoop ==
    \/ initGameEnter
    \/ initGameRetry
    \/ initGameExit
    \/ TileClick

\* Math.random() draws each iteration's indices afresh, so a candidate the
\* loop can exit on, as long as there is one, is eventually drawn.
SpecLoop == Init /\ [][NextLoop]_vars /\ WF_vars(initGameExit)

----------------------------------------------------------------------------
(* Vocabulary of the properties: the board geometry of a 4x4 row-major grid *)

Positions == 0..(TOTAL_TILES - 1)

Row(p) == p \div GRID_SIZE
Col(p) == p % GRID_SIZE

\* Same row and columns one apart, or same column and rows one apart.
OrthAdjacent(p, q) ==
    \/ Row(p) = Row(q) /\ (Col(p) = Col(q) + 1 \/ Col(q) = Col(p) + 1)
    \/ Col(p) = Col(q) /\ (Row(p) = Row(q) + 1 \/ Row(q) = Row(p) + 1)

IsPermutation(t) ==
    /\ DOMAIN t = Positions
    /\ \A v \in Positions : Cardinality({i \in Positions : t[i] = v}) = 1

EmptyPos(t) == CHOOSE i \in DOMAIN t : t[i] = EMPTY_TILE

Solved(t) == t = original

\* Pairs of positions holding fragments out of ascending order.
InversionPairs(t) ==
    {p \in Positions \X Positions :
        /\ p[1] < p[2]
        /\ t[p[1]] # EMPTY_TILE
        /\ t[p[2]] # EMPTY_TILE
        /\ t[p[1]] > t[p[2]]}

\* The parity rule of the 4-column puzzle.
ParitySolvable(t) ==
    LET fromBottom == GRID_SIZE - Row(EmptyPos(t))
        odd(n) == n % 2 = 1
    IN odd(fromBottom) # odd(Cardinality(InversionPairs(t)))

\* The last event was a tile click that did not move a tile.
LastClickRejected == lastKind = "move" /\ lastIndex # EmptyPos(tiles)

TimerFields == <<elapsedTime, isTimerRunning, hasStarted, timerInterval, intervals>>

----------------------------------------------------------------------------
(* Properties *)

\* C1: a click on position p moves a tile if and only if the board is not
\* solved and p is orthogonally adjacent to the empty slot; consecutive
\* indices on different rows (3/4, 7/8, 11/12), diagonal neighbours and the
\* empty position itself are not legal targets.
C1_AppliedIffAdjacent ==
    [][lastKind' = "move" =>
        LET e == EmptyPos(tiles)
            p == lastIndex'
        IN /\ (tiles' # tiles) <=> (~Solved(tiles) /\ OrthAdjacent(p, e))
           /\ {p, e} \in {{3, 4}, {7, 8}, {11, 12}} => tiles' = tiles
           /\ (Row(p) # Row(e) /\ Col(p) # Col(e)) => tiles' = tiles
           /\ p = e => tiles' = tiles]_vars

\* C1 witness: a click on 12 was rejected with the empty slot at 11.
C1_Witness ==
    /\ lastKind = "move"
    /\ lastIndex = 12
    /\ EmptyPos(tiles) = 11

\* C2: after the first new game the board always has 16 cells and holds every
\* label 0..15 exactly once.
C2_BoardIsPermutation == phase # "setup" => IsPermutation(tiles)

\* C2 witness: a session with applied moves and a tick, after a reset.
C2_Witness ==
    /\ moves >= 2
    /\ elapsedTime >= 1
    /\ lastKind = "move"
    /\ IsPermutation(tiles)

\* C3: every board installed by a new game passes the solvability check and
\* is not the solved configuration.
C3_NewGameSolvableUnsolved ==
    lastKind = "newGame" =>
        /\ isSolvable(tiles)
        /\ ParitySolvable(tiles)
        /\ ~Solved(tiles)

\* C3 witness: a new game installed a board with the empty slot in row 2
\* (an even row from the bottom, the odd-inversions branch of the check).
C3_Witness ==
    /\ lastKind = "newGame"
    /\ Row(EmptyPos(tiles)) = 2
    /\ Cardinality(InversionPairs(tiles)) % 2 = 1

\* C4: a rejected click (target not adjacent to the empty slot, or board
\* solved) leaves the board, elapsed time, running flag, started flag and
\* interval handle as they were.
C4_RejectedChangesNothing ==
    [][(lastKind' = "move"
          /\ (Solved(tiles) \/ ~OrthAdjacent(lastIndex', EmptyPos(tiles))))
        => UNCHANGED <<tiles, TimerFields>>]_vars

\* C4 witness: a rejected click on a fresh session; the timer has not started.
C4_Witness ==
    /\ LastClickRejected
    /\ moves = 0
    /\ ~hasStarted
    /\ ~isTimerRunning
    /\ timerInterval = NULL

\* C5: once the board is solved it stays solved and unchanged under clicks
\* and ticks until the next new game.
C5_SolvedStaysSolved ==
    [][(Solved(tiles) /\ lastKind' # "newGame") => tiles' = tiles]_vars

\* C5 witness: a click next to the empty slot was rejected on the solved board.
C5_Witness ==
    /\ Solved(tiles)
    /\ lastKind = "move"
    /\ lastIndex = 14

\* C6: the running flag goes from false to true only in an applied move taken
\* while the session has not started.
C6_TimerStartsOnFirstMove ==
    [][(~isTimerRunning /\ isTimerRunning') =>
        /\ lastKind' = "move"
        /\ tiles' # tiles
        /\ ~hasStarted
        /\ moves = 0]_vars

\* C6 witness: the first applied move of a session has started the timer.
C6_Witness ==
    /\ lastKind = "move"
    /\ moves = 1
    /\ isTimerRunning
    /\ elapsedTime = 0

\* C7: a tick while the timer runs adds exactly 1 to elapsed time and changes
\* nothing else; a tick while it does not run leaves elapsed time unchanged;
\* elapsed time is the number of ticks delivered while running since the last
\* new game.
C7_TickCountsWhileRunning ==
    /\ [](elapsedTime \in Nat /\ elapsedTime = ticks)
    /\ [][lastKind' = "tick" =>
            /\ elapsedTime' = IF isTimerRunning THEN elapsedTime + 1 ELSE elapsedTime
            /\ UNCHANGED <<tiles, isTimerRunning, hasStarted>>]_vars

\* C7 witness: two ticks were counted in a running session.
C7_Witness ==
    /\ lastKind = "tick"
    /\ isTimerRunning
    /\ elapsedTime = 2
    /\ ticks = 2

\* C8: when an applied move solves the board while the timer runs, the timer
\* stops in that step with elapsed time kept, and elapsed time then stays at
\* that value until the next new game.
C8_CompletionStopsTimer ==
    [][/\ (~Solved(tiles) /\ Solved(tiles') /\ isTimerRunning) =>
            /\ ~isTimerRunning'
            /\ intervals' = {}
            /\ elapsedTime' = elapsedTime
       /\ (Solved(tiles) /\ lastKind' # "newGame") =>
            /\ ~isTimerRunning'
            /\ intervals' = {}
            /\ elapsedTime' = elapsedTime]_vars

\* C8 witness: the board was solved by the third move of a session whose
\* timer had counted a tick; the timer is stopped and the count is kept.
C8_Witness ==
    /\ Solved(tiles)
    /\ moves = 3
    /\ elapsedTime >= 1
    /\ ~isTimerRunning

\* C9: between events, a solved board implies the timer is not running.
C9_SolvedImpliesStopped == Solved(tiles) => ~isTimerRunning

\* C9 witness: a session that started its timer has reached the solved board.
C9_Witness ==
    /\ Solved(tiles)
    /\ hasStarted
    /\ ticks >= 2
    /\ lastKind = "move"
    /\ lastIndex = EMPTY_TILE

\* C10: the timer runs only in a started session.
C10_RunningImpliesStarted == isTimerRunning => hasStarted

\* C10 witness: a started session with the timer running and a tick counted.
C10_Witness ==
    /\ isTimerRunning
    /\ hasStarted
    /\ elapsedTime = 1

\* C11: a new game requested from any state leaves elapsed time 0, the timer
\* not running, the session not started, and a board that is unsolved and
\* passes the solvability check.
C11_NewGameResetsSession ==
    lastKind = "newGame" =>
        /\ elapsedTime = 0
        /\ ~isTimerRunning
        /\ ~hasStarted
        /\ ~Solved(tiles)
        /\ isSolvable(tiles)

\* C11 witness: a new game was requested while the timer was running.
C11_Witness ==
    /\ lastKind = "newGame"
    /\ wasRunning
    /\ elapsedTime = 0

\* C12: stopping the timer cancels its interval: while the session has not
\* started no interval is live and elapsed time stays 0, and at no time is an
\* interval live other than the one the handle names.
C12_NoLateTick ==
    /\ ~hasStarted => (intervals = {} /\ elapsedTime = 0 /\ ticks = 0)
    /\ \A h \in intervals : h = timerInterval

\* C12 witness: a new game was requested while the timer was running; the
\* interval of the old session is gone and the handle is null.
C12_Witness ==
    /\ lastKind = "newGame"
    /\ wasRunning
    /\ intervals = {}
    /\ timerInterval = NULL

\* C13 as stated: the first applied move of a session takes started and
\* running from false to true, and the second applied move leaves both true.
C13_Original ==
    [][(lastKind' = "move" /\ tiles' # tiles) =>
        /\ moves = 0 => (~hasStarted /\ ~isTimerRunning
                         /\ hasStarted' /\ isTimerRunning')
        /\ moves = 1 => (hasStarted /\ isTimerRunning
                         /\ hasStarted' /\ isTimerRunning')]_vars

\* C13 amended: the first applied move of a session takes started from false
\* to true and, unless it solves the board, running from false to true; the
\* second applied move leaves started true and, unless it solves the board,
\* running true. A move that solves the board leaves running false.
C13_FlagsOnFirstAndSecondMove ==
    [][(lastKind' = "move" /\ tiles' # tiles) =>
        /\ moves = 0 => (~hasStarted /\ ~isTimerRunning /\ hasStarted')
        /\ moves = 1 => (hasStarted /\ isTimerRunning /\ hasStarted')
        /\ moves \in {0, 1} => (isTimerRunning' <=> ~Solved(tiles'))]_vars

\* C13 witness: the second applied move of a session; both flags are true.
C13_Witness ==
    /\ lastKind = "move"
    /\ lastIndex = EmptyPos(tiles)
    /\ moves = 2
    /\ hasStarted
    /\ isTimerRunning

\* C14: when the first applied move of a session solves the board, the
\* session is started, the timer is not running, elapsed time is 0 and no
\* tick is counted for that session.
C14_FirstMoveCompletes ==
    (Solved(tiles) /\ moves = 1) =>
        /\ hasStarted
        /\ ~isTimerRunning
        /\ intervals = {}
        /\ elapsedTime = 0
        /\ ticks = 0

\* C14 witness: the board was solved by the first applied move, and a later
\* click found the session in that state.
C14_Witness ==
    /\ Solved(tiles)
    /\ moves = 1
    /\ hasStarted
    /\ lastKind = "move"
    /\ lastIndex # EMPTY_TILE

ScenarioBoard ==
    [i \in Positions |-> IF i = 0 THEN 1 ELSE IF i = 1 THEN 0 ELSE i]

ScenarioAfter11 ==
    [i \in Positions |->
        IF i = 0 THEN 1 ELSE IF i = 1 THEN 0
        ELSE IF i = 11 THEN 15 ELSE IF i = 15 THEN 11 ELSE i]

\* C16: on the board [1,0,2,...,15] the solved predicate is false, a click on
\* position 0 is rejected and leaves the board unchanged, and a click on
\* position 11 is applied and yields [1,0,2,...,10,15,12,13,14,11].
C16_Scenario ==
    [][(tiles = ScenarioBoard /\ lastKind' = "move") =>
        /\ ~isComplete(tiles)
        /\ ~Solved(tiles)
        /\ lastIndex' = 0 => tiles' = ScenarioBoard
        /\ lastIndex' = 11 => tiles' = ScenarioAfter11]_vars

\* C16 witness: the click on 11 was the first event on the scenario board.
C16_Witness ==
    /\ tiles = ScenarioAfter11
    /\ lastKind = "move"
    /\ lastIndex = 11
    /\ moves = 1

\* C17 as stated: a click with a position outside 0..15 is not applied; the
\* board stays the 16-cell permutation it was and the session state is
\* unchanged.
C17_OutOfRangeRejected ==
    [][(IsPermutation(tiles) /\ lastKind' = "move" /\ lastIndex' \notin Positions) =>
        /\ tiles' = tiles
        /\ IsPermutation(tiles')
        /\ UNCHANGED TimerFields]_vars

\* C19: unmounting the component, from any state, leaves the timer not
\* running and no interval live, and keeps elapsed time: neither the unmount
\* nor anything after it changes elapsed time.
C19_TeardownStopsTimer ==
    [][phase' = "unmounted" =>
        /\ ~isTimerRunning'
        /\ intervals' = {}
        /\ timerInterval' = NULL
        /\ elapsedTime' = elapsedTime]_vars

\* C19 witness: the component was unmounted while the timer was running,
\* with a tick already counted.
C19_Witness ==
    /\ phase = "unmounted"
    /\ wasRunning
    /\ elapsedTime >= 1
    /\ ~isTimerRunning

\* C20: an applied move on p with the empty slot at e puts 15 at p and the
\* label that was at p at e, leaves the other 14 cells as they were, and does
\* not change elapsed time.
C20_MoveSwapsTwoCells ==
    [][(lastKind' = "move" /\ tiles' # tiles) =>
        LET p == lastIndex'
            e == EmptyPos(tiles)
        IN /\ p # e
           /\ DOMAIN tiles' = Positions
           /\ tiles'[p] = EMPTY_TILE
           /\ tiles'[e] = tiles[p]
           /\ \A k \in Positions \ {p, e} : tiles'[k] = tiles[k]
           /\ elapsedTime' = elapsedTime]_vars

\* C20 witness: a second move was applied after a tick; the empty slot is at
\* the clicked position.
C20_Witness ==
    /\ lastKind = "move"
    /\ moves = 2
    /\ elapsedTime = 1
    /\ tiles[lastIndex] = EMPTY_TILE

\* C23: between events the interval handle is non-null exactly when the timer
\* is running, at most one interval is live, and the live interval (if any)
\* is the one the handle names: a running timer has exactly its own
\* interval, a stopped timer has none.
C23_HandleLiveIffRunning ==
    /\ timerInterval # NULL <=> isTimerRunning
    /\ Cardinality(intervals) <= 1
    /\ intervals = (IF isTimerRunning THEN {timerInterval} ELSE {})

\* C23 witness: a move has just started the timer; the interval startTimer
\* created is the only live one and the handle names it.
C23_Witness ==
    /\ lastKind = "move"
    /\ ~wasRunning
    /\ isTimerRunning
    /\ timerInterval # NULL
    /\ intervals = {timerInterval}

\* The positions on which handleTileClick changes the board t.
MovablePositions(t) == {p \in Positions : ClickTiles(t, p) # t}

\* C25: once a board is installed, an unsolved board has at least 2 and at
\* most 4 positions on which a click moves a tile, and a solved board has
\* none.
C25_MovableCount ==
    phase # "setup" =>
        IF Solved(tiles)
        THEN MovablePositions(tiles) = {}
        ELSE Cardinality(MovablePositions(tiles)) \in 2..4

\* C25 witness: play has brought the empty slot to an inner cell of an
\* unsolved board, where all four neighbours can move.
C25_Witness ==
    /\ lastKind = "move"
    /\ ~Solved(tiles)
    /\ Row(EmptyPos(tiles)) \in 1..(GRID_SIZE - 2)
    /\ Col(EmptyPos(tiles)) \in 1..(GRID_SIZE - 2)
    /\ Cardinality(MovablePositions(tiles)) = 4

\* The last event was a tile click that moved a tile.
LastClickApplied == lastKind = "move" /\ tiles # prevTiles

\* C24: after an applied move on p made with the empty slot at e, on a board
\* that is not solved, a click on e is accepted by the handler and gives
\* back the board as it was before the move, and a click on p is not
\* accepted; the next click, if it is on e, moves a tile and restores that
\* board, and if it is on p, changes neither board, timer nor move count.
C24_UndoByVacatedCell ==
    [][(LastClickApplied /\ ~Solved(tiles)) =>
        LET p == lastIndex
            e == EmptyPos(prevTiles)
        IN /\ Applies(tiles, e)
           /\ ClickTiles(tiles, e) = prevTiles
           /\ ~Applies(tiles, p)
           /\ ClickTiles(tiles, p) = tiles
           /\ (lastKind' = "move" /\ lastIndex' = e) =>
                   (tiles' # tiles /\ tiles' = prevTiles /\ moves' = moves + 1)
           /\ (lastKind' = "move" /\ lastIndex' = p) =>
                   UNCHANGED <<tiles, TimerFields, moves>>]_vars

\* C24 witness: a move has just been undone: the last click moved a tile
\* into the cell the click before it had vacated, and two moves earlier the
\* board was the present one.
C24_Witness ==
    /\ LastClickApplied
    /\ moves >= 2
    /\ ~Solved(tiles)
    /\ ~Solved(prevTiles)
    /\ tiles[lastIndex] = EMPTY_TILE
    /\ tiles \in InitGameBoards
    /\ OrthAdjacent(lastIndex, EmptyPos(prevTiles))

\* C22: an applied move, horizontal or vertical, never changes the verdict of
\* the solvability check, on boards that pass it and on boards that fail it;
\* so every board played from one that passes still passes.
C22_MovePreservesSolvability ==
    [][(lastKind' = "move" /\ tiles' # tiles) =>
        /\ IsPermutation(tiles)
        /\ isSolvable(tiles') <=> isSolvable(tiles)
        /\ ParitySolvable(tiles') <=> ParitySolvable(tiles)]_vars

\* C22 witness: a vertical move has been applied on a board that fails the
\* solvability check.
C22_Witness ==
    /\ LastClickApplied
    /\ Col(EmptyPos(tiles)) = Col(EmptyPos(prevTiles))
    /\ Row(EmptyPos(tiles)) # Row(EmptyPos(prevTiles))
    /\ ~isSolvable(prevTiles)
    /\ ~isSolvable(tiles)

\* C21: some board the shuffle can produce passes the solvability check and
\* is not solved, and whenever initGame is in its retry loop the loop
\* eventually exits with a new board installed.
C21_RetryLoopTerminates ==
    /\ \E b \in InitGameBoards : IsPermutation(b) /\ isSolvable(b) /\ ~Solved(b)
    /\ (phase = "shuffling") ~> (phase = "mounted" /\ lastKind = "newGame")

\* C21 witness: the new-game loop, entered while the timer was running, has
\* exited and installed a board.
C21_Witness ==
    /\ phase = "mounted"
    /\ lastKind = "newGame"
    /\ wasRunning
    /\ moves = 0
    /\ tiles \in InitGameBoards

====
